---- MODULE Spec2Model ----
(***************************************************************************)
(* RFM segmentation of customer transactions: the scorer calculateRFM, the *)
(* segment rule chain getSegmentName and the upload handler that stores    *)
(* the scores.                                                             *)
(*                                                                         *)
(* Numbers are JavaScript numbers.  NaN is a value of its own that no      *)
(* comparison accepts; sums are rounded to a significand of                *)
(* SignificandBits bits (round to nearest, ties to even), a scaled-down    *)
(* IEEE-754 double.  Times are counted in units of which DayLength make a  *)
(* day.  Amounts are counted in units of 50.                               *)
(***************************************************************************)
EXTENDS Integers, Sequences, FiniteSets, TLC

VARIABLES
    pc,             \* which specification's call is pending or done
    transactions,   \* calculateRFM: the argument
    customerData,   \* calculateRFM: the Map after the forEach pass
    result,         \* calculateRFM: what the call produced
    axis,           \* scoring: the axis a sorted array belongs to
    values,         \* scoring: recencyValues / frequencyValues / monetaryValues
    axisScores,     \* scoring: the score of the customer holding values[i]
    r, f, m,        \* getSegmentName: the arguments
    segment_name,   \* getSegmentName: the label returned
    tbl_transactions,   \* handler: table transactions of the user
    customer_segments,  \* handler: table customer_segments of the user
    req,                \* handler: the upload requests in flight
    response            \* handler: the response the latest step sent, if any

vars == <<pc, transactions, customerData, result, axis, values, axisScores,
          r, f, m, segment_name, tbl_transactions, customer_segments, req,
          response>>

rfmVars == <<transactions, customerData, result>>
axisVars == <<axis, values, axisScores>>
segVars == <<r, f, m, segment_name>>
handlerVars == <<tbl_transactions, customer_segments, req, response>>

----------------------------------------------------------------------------
(* Bounds of the model *)

MaxTx == 3
NumRequests == 2
MaxRows == 1
MaxCust == 5
MaxVal == 5
SignificandBits == 2

----------------------------------------------------------------------------
(* JavaScript numbers and dates *)

NaN == -9999

DayLength == 2

IsNaN(x) == x = NaN

\* a > b of two numbers (or of two Dates, by their time values)
JsGt(a, b) == ~IsNaN(a) /\ ~IsNaN(b) /\ a > b

\* a === b, as Array.prototype.indexOf compares
JsStrictEq(a, b) == ~IsNaN(a) /\ ~IsNaN(b) /\ a = b

RECURSIVE Pow2(_)
Pow2(n) == IF n = 0 THEN 1 ELSE 2 * Pow2(n - 1)

RECURSIVE Ulp(_, _)
Ulp(x, step) == IF x < Pow2(SignificandBits) * step THEN step ELSE Ulp(x, 2 * step)

\* the double nearest to the non-negative real x, ties to the even significand
RoundToDouble(x) ==
    LET s == Ulp(x, 1)
        q == x \div s
        rem == x % s
        up == 2 * rem > s \/ (2 * rem = s /\ q % 2 = 1)
    IN  (IF up THEN q + 1 ELSE q) * s

\* a + b of two non-negative numbers
NumberAdd(a, b) == IF IsNaN(a) \/ IsNaN(b) THEN NaN ELSE RoundToDouble(a + b)

\* new Date(s).getTime(): the time value of a date string, NaN for Invalid Date
DateParse(s) ==
    CASE s = "2024-01-01" -> 0 * DayLength
      [] s = "2024-02-01" -> 31 * DayLength
      [] s = "2024-06-01" -> 152 * DayLength
      [] OTHER -> NaN

\* date.toISOString().split('T')[0] of a valid time value
ISODate(t) ==
    LET day == t \div DayLength
    IN  CASE day = 0 -> "2024-01-01"
          [] day = 31 -> "2024-02-01"
          [] day = 152 -> "2024-06-01"
          [] OTHER -> "other"

\* new Date() at the time of the call: 2024-06-02, 12:00
NowTime == 153 * DayLength + 1

----------------------------------------------------------------------------
(* Inputs *)

CustomerIds == {"A", "B"}
DateStrings == {"2024-01-01", "2024-02-01", "2024-06-01", "n/a"}
Amounts == {1, 2, 4}

Transaction == [customer_id : CustomerIds, transaction_date : DateStrings,
                transaction_amount : Amounts]

TransactionLists == UNION {[1..n -> Transaction] : n \in 0..MaxTx}

----------------------------------------------------------------------------
(* calculateRFM: aggregation *)

\* customerData.get(id): the position of the entry of id, 0 when there is none
MapIndex(data, id) ==
    IF \E i \in 1..Len(data) : data[i].customer_id = id
    THEN CHOOSE i \in 1..Len(data) : data[i].customer_id = id
    ELSE 0

forEachStepNoMerge(data, t) ==
    Append(data, [customer_id |-> t.customer_id, transactions |-> 1,
                  totalSpend |-> t.transaction_amount,
                  lastDate |-> DateParse(t.transaction_date)])

\* one iteration of transactions.forEach
forEachStep(data, t) ==
    LET i == MapIndex(data, t.customer_id)
        transactionDate == DateParse(t.transaction_date)
    IN  IF i # 0
        THEN [data EXCEPT ![i] =
                [customer_id |-> @.customer_id,
                 transactions |-> @.transactions + 1,
                 totalSpend |-> NumberAdd(@.totalSpend, t.transaction_amount),
                 lastDate |-> IF JsGt(transactionDate, @.lastDate)
                              THEN transactionDate ELSE @.lastDate]]
        ELSE Append(data, [customer_id |-> t.customer_id, transactions |-> 1,
                           totalSpend |-> t.transaction_amount,
                           lastDate |-> transactionDate])

\* the Map after the whole forEach, entries in insertion order
RECURSIVE Aggregate(_)
Aggregate(txs) ==
    IF Len(txs) = 0 THEN <<>>
    ELSE forEachStep(Aggregate(SubSeq(txs, 1, Len(txs) - 1)), txs[Len(txs)])

\* the recency taken as lastDate - now
RecencyDaysReversed(now, lastDate) ==
    IF IsNaN(lastDate) THEN NaN ELSE (lastDate - now) \div DayLength

\* Math.floor((now.getTime() - lastDate.getTime()) / (1000 * 60 * 60 * 24))
RecencyDays(now, lastDate) ==
    IF IsNaN(lastDate) THEN NaN ELSE (now - lastDate) \div DayLength

\* Array.from(customerData.entries()).map(...)
CustomersOf(data, now) ==
    [i \in 1..Len(data) |->
        [customer_id |-> data[i].customer_id,
         recency |-> RecencyDays(now, data[i].lastDate),
         frequency |-> data[i].transactions,
         monetary |-> data[i].totalSpend,
         lastDate |-> data[i].lastDate]]

----------------------------------------------------------------------------
(* calculateRFM: quartile scores *)

\* sort((a, b) => a - b) of an array without NaN: ascending
RECURSIVE SortAsc(_)
SortAsc(s) ==
    IF Len(s) = 0 THEN <<>>
    ELSE LET k == CHOOSE i \in 1..Len(s) : \A j \in 1..Len(s) : s[i] <= s[j]
         IN  <<s[k]>> \o SortAsc(SubSeq(s, 1, k - 1) \o SubSeq(s, k + 1, Len(s)))

\* values.indexOf(value): the first index (from 0) holding value, -1 if none
IndexOf(vals, value) ==
    IF \E i \in 1..Len(vals) : JsStrictEq(vals[i], value)
    THEN (CHOOSE i \in 1..Len(vals) :
            /\ JsStrictEq(vals[i], value)
            /\ \A j \in 1..(i - 1) : ~JsStrictEq(vals[j], value)) - 1
    ELSE -1

\* getQuantile taking the quartile as ceil(4 * percentile)
getQuantileCeil(vals, value) ==
    LET index == IndexOf(vals, value)
        length == Len(vals)
    IN  (4 * index + length - 1) \div length

\* getQuantile with the first threshold mistyped as 0.5
getQuantileHalves(vals, value) ==
    LET index == IndexOf(vals, value)
        length == Len(vals)
    IN  IF 2 * index <= length THEN 1
        ELSE IF 4 * index <= 3 * length THEN 3
        ELSE 4

\* getQuantile with percentile = index / (values.length - 1)
getQuantileLenMinus1(vals, value) ==
    LET index == IndexOf(vals, value)
        length == Len(vals) - 1
    IN  IF 4 * index <= length THEN 1
        ELSE IF 2 * index <= length THEN 2
        ELSE IF 4 * index <= 3 * length THEN 3
        ELSE 4

\* percentile = index / values.length against 0.25, 0.5 and 0.75, which are
\* exact doubles: index / length <= 0.25 exactly when 4 * index <= length
getQuantile(vals, value) ==
    LET index == IndexOf(vals, value)
        length == Len(vals)
    IN  IF 4 * index <= length THEN 1
        ELSE IF 2 * index <= length THEN 2
        ELSE IF 4 * index <= 3 * length THEN 3
        ELSE 4

\* the recency score taken without the inversion
AxisScoreNoInvert(ax, vals, value) == getQuantile(vals, value)

\* r = 5 - getQuantile(recencyValues, ...); f and m take the quartile itself
AxisScore(ax, vals, value) ==
    IF ax = "recency" THEN 5 - getQuantile(vals, value) ELSE getQuantile(vals, value)

----------------------------------------------------------------------------
(* getSegmentName *)

\* the rule chain with its first two rules in the other order
getSegmentNameLoyalFirst(rs, fs, ms) ==
    IF rs >= 3 /\ fs >= 3 /\ ms >= 3 THEN "Loyal Customers"
    ELSE IF rs >= 4 /\ fs >= 4 /\ ms >= 4 THEN "Champions"
    ELSE "Low Value"

getSegmentName(rs, fs, ms) ==
    LET score == rs + fs + ms
    IN  IF rs >= 4 /\ fs >= 4 /\ ms >= 4 THEN "Champions"
        ELSE IF rs >= 3 /\ fs >= 3 /\ ms >= 3 THEN "Loyal Customers"
        ELSE IF rs >= 4 /\ fs <= 2 THEN "New Customers"
        ELSE IF rs >= 3 /\ fs >= 1 /\ ms >= 2 THEN "Potential Loyalists"
        ELSE IF rs >= 2 /\ rs <= 3 /\ fs >= 2 /\ ms >= 2 THEN "Customers Needing Attention"
        ELSE IF rs <= 2 /\ fs >= 3 THEN "At Risk"
        ELSE IF rs <= 2 /\ fs <= 2 /\ ms >= 3 THEN "Big Spenders at Risk"
        ELSE IF rs <= 1 /\ fs <= 2 THEN "Lost Customers"
        ELSE IF score >= 9 THEN "High Value"
        ELSE IF score >= 6 THEN "Medium Value"
        ELSE "Low Value"

----------------------------------------------------------------------------
(* calculateRFM *)

Field(s, name) == [i \in 1..Len(s) |-> s[i][name]]

\* the three sorted arrays and customers.map(customer => ...): toISOString
\* throws RangeError on an Invalid Date, and the call then returns nothing.
\* The sorts are ascending: a recency is NaN only for an Invalid Date, and no
\* amount of Transaction or of a parsed CSV row is NaN.
ScoresOf(customers) ==
    LET recencyValues == SortAsc(Field(customers, "recency"))
        frequencyValues == SortAsc(Field(customers, "frequency"))
        monetaryValues == SortAsc(Field(customers, "monetary"))
    IN  IF \E i \in 1..Len(customers) : IsNaN(customers[i].lastDate)
        THEN [kind |-> "threw", scores |-> <<>>]
        ELSE [kind |-> "returned",
              scores |-> [i \in 1..Len(customers) |->
                LET rs == AxisScore("recency", recencyValues, customers[i].recency)
                    fs == AxisScore("frequency", frequencyValues, customers[i].frequency)
                    ms == AxisScore("monetary", monetaryValues, customers[i].monetary)
                IN  [customer_id |-> customers[i].customer_id,
                     recency_score |-> rs,
                     frequency_score |-> fs,
                     monetary_score |-> ms,
                     total_transactions |-> customers[i].frequency,
                     total_spend |-> customers[i].monetary,
                     avg_spend |-> <<customers[i].monetary, customers[i].frequency>>,
                     last_transaction_date |-> ISODate(customers[i].lastDate),
                     segment_name |-> getSegmentName(rs, fs, ms)]]]

calculateRFM(txs, now) == ScoresOf(CustomersOf(Aggregate(txs), now))

----------------------------------------------------------------------------
(* Specification Spec: one call of calculateRFM *)

NoResult == [kind |-> "none", scores |-> <<>>]

IdleAxis == /\ axis = "none" /\ values = <<>> /\ axisScores = NoResult
IdleSeg == /\ r = 1 /\ f = 1 /\ m = 1 /\ segment_name = "none"
NoResponse == [request |-> 0, status |-> 0, success |-> FALSE]
IdleHandler ==
    /\ tbl_transactions = <<>> /\ customer_segments = <<>> /\ req = <<>>
    /\ response = NoResponse
IdleRFM == /\ transactions = <<>> /\ customerData = <<>> /\ result = NoResult

Init ==
    /\ pc = "idle"
    /\ IdleRFM /\ IdleAxis /\ IdleSeg /\ IdleHandler

calculateRFMCall ==
    /\ pc = "idle"
    /\ \E txs \in TransactionLists :
        /\ transactions' = txs
        /\ customerData' = Aggregate(txs)
        /\ result' = calculateRFM(txs, NowTime)
    /\ pc' = "done"
    /\ UNCHANGED <<axisVars, segVars, handlerVars>>

Next == calculateRFMCall

Spec == Init /\ [][Next]_vars

----------------------------------------------------------------------------
(* Specification SpecAxis: the scoring of one axis, for any array the sort  *)
(* can return.  With a NaN in the array the comparator a - b is not         *)
(* consistent and the order is implementation-defined: any order.           *)

Axes == {"recency", "frequency", "monetary"}

\* recency is NaN for an Invalid Date and monetary is NaN for a NaN amount;
\* frequency is a count
AxisValues(ax) == IF ax = "frequency" THEN 1..MaxVal ELSE (1..MaxVal) \cup {NaN}

IsSortOutcome(s) ==
    \/ \E i \in 1..Len(s) : IsNaN(s[i])
    \/ \A i \in 1..Len(s) : \A j \in i..Len(s) : s[i] <= s[j]

SortedArrays(ax) ==
    {s \in UNION {[1..n -> AxisValues(ax)] : n \in 0..MaxCust} : IsSortOutcome(s)}

\* customers.map(...) on one axis; a NaN recency is an Invalid Date, on which
\* toISOString throws
AxisResult(ax, vals) ==
    IF ax = "recency" /\ \E i \in 1..Len(vals) : IsNaN(vals[i])
    THEN [kind |-> "threw", scores |-> <<>>]
    ELSE [kind |-> "returned",
          scores |-> [i \in 1..Len(vals) |-> AxisScore(ax, vals, vals[i])]]

InitAxis ==
    /\ pc = "idle"
    /\ IdleRFM /\ IdleAxis /\ IdleSeg /\ IdleHandler

ScoreAxis ==
    /\ pc = "idle"
    /\ \E ax \in Axes : \E vals \in SortedArrays(ax) :
        /\ axis' = ax
        /\ values' = vals
        /\ axisScores' = AxisResult(ax, vals)
    /\ pc' = "done"
    /\ UNCHANGED <<rfmVars, segVars, handlerVars>>

NextAxis == ScoreAxis

SpecAxis == InitAxis /\ [][NextAxis]_vars

----------------------------------------------------------------------------
(* Specification SpecSegment: one call of getSegmentName *)

Scores == 1..4

InitSegment ==
    /\ pc = "call"
    /\ r \in Scores /\ f \in Scores /\ m \in Scores
    /\ segment_name = "none"
    /\ IdleRFM /\ IdleAxis /\ IdleHandler

getSegmentNameCall ==
    /\ pc = "call"
    /\ segment_name' = getSegmentName(r, f, m)
    /\ pc' = "done"
    /\ UNCHANGED <<r, f, m, rfmVars, axisVars, handlerVars>>

NextSegment == getSegmentNameCall

SpecSegment == InitSegment /\ [][NextSegment]_vars

----------------------------------------------------------------------------
(* Specification SpecHandler: upload requests of one user.  Every await of  *)
(* the handler is a step of its own, and the steps of two requests          *)
(* interleave.  A database call whose error the handler does not read       *)
(* (the select, the delete) is taken to succeed.                            *)

Requests == 1..NumRequests

CsvIds == {"", "A", "B"}
CsvDates == {"2024-02-01", "2024-06-01"}
CsvAmounts == {"1", "2", "abc"}

CsvRow == [customer_id : CsvIds, transaction_date : CsvDates, transaction_amount : CsvAmounts]

CsvFiles ==
    [present : BOOLEAN, headers : BOOLEAN,
     rows : UNION {[1..n -> CsvRow] : n \in 0..MaxRows}]

\* parseFloat(s) || 0
ParseAmount(s) ==
    LET parsed == CASE s = "1" -> 1 [] s = "2" -> 2 [] OTHER -> NaN
    IN  IF IsNaN(parsed) \/ parsed = 0 THEN 0 ELSE parsed

\* the loop over the lines of the file: a row without customer_id is skipped
RECURSIVE ParseRows(_)
ParseRows(rows) ==
    IF Len(rows) = 0 THEN <<>>
    ELSE LET row == rows[Len(rows)]
             before == ParseRows(SubSeq(rows, 1, Len(rows) - 1))
         IN  IF row.customer_id # ""
             THEN Append(before, [customer_id |-> row.customer_id,
                                  transaction_date |-> row.transaction_date,
                                  transaction_amount |-> ParseAmount(row.transaction_amount)])
             ELSE before

NewRequest == [pc |-> "start", newTransactions |-> <<>>, rfmScores |-> <<>>, status |-> 0]

\* return new Response(body, { status: code }); success is the body's flag
Reply(p, code, success) ==
    /\ req' = [req EXCEPT ![p].pc = "done", ![p].status = code]
    /\ response' = [request |-> p, status |-> code, success |-> success]

\* the step ends at the next await
Continue(p, next) ==
    /\ req' = [req EXCEPT ![p].pc = next]
    /\ response' = NoResponse

InitHandler ==
    /\ pc = "serving"
    /\ tbl_transactions = <<>>
    /\ customer_segments = <<>>
    /\ req = [p \in Requests |-> NewRequest]
    /\ response = NoResponse
    /\ IdleRFM /\ IdleAxis /\ IdleSeg

\* from the start of the handler to the parsed CSV: the preflight answer, the
\* configuration, the authorization, the file, its header line and its rows
Receive(p) ==
    /\ req[p].pc = "start"
    /\ \E method \in {"OPTIONS", "POST"} : \E configured, authorized \in BOOLEAN :
       \E file \in CsvFiles :
        IF method = "OPTIONS" THEN Reply(p, 200, FALSE)
        ELSE IF ~configured THEN Reply(p, 500, FALSE)
        ELSE IF ~authorized THEN Reply(p, 401, FALSE)
        ELSE IF ~file.present \/ ~file.headers THEN Reply(p, 400, FALSE)
        ELSE IF Len(ParseRows(file.rows)) = 0 THEN Reply(p, 400, FALSE)
        ELSE /\ req' = [req EXCEPT ![p].pc = "select",
                                   ![p].newTransactions = ParseRows(file.rows)]
             /\ response' = NoResponse
    /\ UNCHANGED <<pc, tbl_transactions, customer_segments, rfmVars, axisVars, segVars>>

\* select the stored transactions and score them with the new ones
SelectAndScore(p) ==
    /\ req[p].pc = "select"
    /\ LET allTransactions == tbl_transactions \o req[p].newTransactions
           scored == calculateRFM(allTransactions, NowTime)
       IN  IF scored.kind = "threw" THEN Reply(p, 500, FALSE)
           ELSE /\ req' = [req EXCEPT ![p].pc = "insert_upload",
                                      ![p].rfmScores = scored.scores]
                /\ response' = NoResponse
    /\ UNCHANGED <<pc, tbl_transactions, customer_segments, rfmVars, axisVars, segVars>>

InsertUploadHistory(p) ==
    /\ req[p].pc = "insert_upload"
    /\ \E uploadError \in BOOLEAN :
        IF uploadError THEN Reply(p, 500, FALSE)
        ELSE Continue(p, "insert_transactions")
    /\ UNCHANGED <<pc, tbl_transactions, customer_segments, rfmVars, axisVars, segVars>>

InsertTransactions(p) ==
    /\ req[p].pc = "insert_transactions"
    /\ \E transactionError \in BOOLEAN :
        IF transactionError
        THEN Reply(p, 500, FALSE) /\ UNCHANGED tbl_transactions
        ELSE /\ tbl_transactions' = tbl_transactions \o req[p].newTransactions
             /\ Continue(p, "delete_segments")
    /\ UNCHANGED <<pc, customer_segments, rfmVars, axisVars, segVars>>

DeleteSegments(p) ==
    /\ req[p].pc = "delete_segments"
    /\ customer_segments' = <<>>
    /\ Continue(p, "insert_segments")
    /\ UNCHANGED <<pc, tbl_transactions, rfmVars, axisVars, segVars>>

InsertSegments(p) ==
    /\ req[p].pc = "insert_segments"
    /\ \E segmentError \in BOOLEAN :
        IF segmentError
        THEN Reply(p, 500, FALSE) /\ UNCHANGED customer_segments
        ELSE /\ customer_segments' = customer_segments \o req[p].rfmScores
             /\ Reply(p, 200, TRUE)
    /\ UNCHANGED <<pc, tbl_transactions, rfmVars, axisVars, segVars>>

handler(p) ==
    \/ Receive(p)
    \/ SelectAndScore(p)
    \/ InsertUploadHistory(p)
    \/ InsertTransactions(p)
    \/ DeleteSegments(p)
    \/ InsertSegments(p)

NextHandler == \E p \in Requests : handler(p)

SpecHandler == InitHandler /\ [][NextHandler]_vars

----------------------------------------------------------------------------
(* Claims on the handler *)

RowSet(rows) == {rows[i] : i \in 1..Len(rows)}

\* customer_segments holds exactly the scores of the stored transactions
SegmentsAreFresh ==
    LET fresh == calculateRFM(tbl_transactions, NowTime)
    IN  /\ fresh.kind = "returned"
        /\ Len(customer_segments) = Len(fresh.scores)
        /\ RowSet(customer_segments) = RowSet(fresh.scores)

\* C9: whenever an upload request completes with status 200, customer_segments
\* holds exactly the scores of the user's whole stored history at that moment,
\* one row per customer, also when two requests of the user interleave.
UploadStoresFreshScores ==
    (response.status = 200 /\ response.success) => SegmentsAreFresh

----------------------------------------------------------------------------
(* Claims on getSegmentName *)

\* C3 as stated: getSegmentName(4,4,4) is "Champions", and getSegmentName(1,1,1)
\* matches none of the eight named rules and is "Low Value" by its sum.
SegmentExamplesAsStated ==
    pc = "done" =>
        /\ (r = 4 /\ f = 4 /\ m = 4) => segment_name = "Champions"
        /\ (r = 1 /\ f = 1 /\ m = 1) => segment_name = "Low Value"

\* C3, amended: the first matching rule wins: getSegmentName(4,4,4) is
\* "Champions" although the second rule matches it too, and getSegmentName(1,1,1)
\* is "Lost Customers" by the eighth rule (R <= 1 and F <= 2), not the sum bucket.
SegmentExamples ==
    pc = "done" =>
        /\ (r = 4 /\ f = 4 /\ m = 4) => segment_name = "Champions"
        /\ (r = 1 /\ f = 1 /\ m = 1) => segment_name = "Lost Customers"

SegmentExamplesWitness ==
    /\ pc = "done"
    /\ r = 1 /\ f = 1 /\ m = 1
    /\ segment_name = "Lost Customers"

----------------------------------------------------------------------------
(* Claims on the quartile scores of one axis *)

Returned == pc = "done" /\ axisScores.kind = "returned"

NumCustomers == Len(values)

PairwiseDistinct ==
    /\ \A i \in 1..NumCustomers : ~IsNaN(values[i])
    /\ \A i, j \in 1..NumCustomers : i # j => values[i] # values[j]

\* the quartile getQuantile gave the customer holding values[i]
QuartileOf(i) ==
    IF axis = "recency" THEN 5 - axisScores.scores[i] ELSE axisScores.scores[i]

GroupSize(q) == Cardinality({i \in 1..NumCustomers : QuartileOf(i) = q})

\* C4: every emitted recency, frequency and monetary score is one of 1, 2, 3, 4,
\* also for a value indexOf does not find (NaN: index -1).
ScoresInRange ==
    Returned => \A i \in 1..NumCustomers : axisScores.scores[i] \in 1..4

ScoresInRangeWitness ==
    /\ Returned
    /\ axis = "monetary"
    /\ NumCustomers >= 2
    /\ \E i \in 1..NumCustomers :
        /\ IsNaN(values[i])
        /\ IndexOf(values, values[i]) = -1
        /\ axisScores.scores[i] = 1
    /\ \E i \in 1..NumCustomers : axisScores.scores[i] = 4

\* C5 as stated: with pairwise distinct values each quartile 1..4 is given to
\* floor(N/4) or ceil(N/4) customers.
QuartileGroupsFloorOrCeil ==
    (Returned /\ PairwiseDistinct /\ NumCustomers >= 1) =>
        \A q \in 1..4 :
            \/ GroupSize(q) = NumCustomers \div 4
            \/ GroupSize(q) = (NumCustomers + 3) \div 4

\* C5, amended: with pairwise distinct values the quartiles 1..4 split the N
\* customers into four groups, each of a size within 1 of N/4.
QuartileGroupsWithinOne ==
    (Returned /\ PairwiseDistinct /\ NumCustomers >= 1) =>
        /\ GroupSize(1) + GroupSize(2) + GroupSize(3) + GroupSize(4) = NumCustomers
        /\ \A q \in 1..4 :
            /\ 4 * GroupSize(q) >= NumCustomers - 4
            /\ 4 * GroupSize(q) <= NumCustomers + 4

QuartileGroupsWitness ==
    /\ Returned /\ PairwiseDistinct
    /\ NumCustomers = 4
    /\ GroupSize(1) = 2 /\ GroupSize(2) = 1 /\ GroupSize(3) = 1 /\ GroupSize(4) = 0

\* C6: the recency score does not increase with the days since the last
\* transaction; equal days get equal scores.
RecencyScoreMonotone ==
    (Returned /\ axis = "recency") =>
        \A i, j \in 1..NumCustomers :
            values[i] <= values[j] => axisScores.scores[i] >= axisScores.scores[j]

RecencyScoreMonotoneWitness ==
    /\ Returned /\ axis = "recency"
    /\ \E i, j \in 1..NumCustomers :
        values[i] < values[j] /\ axisScores.scores[i] > axisScores.scores[j]
    /\ \E i, j \in 1..NumCustomers :
        i # j /\ values[i] = values[j] /\ axisScores.scores[i] = axisScores.scores[j]

\* the score the largest percentile can reach: quartile 4
ExtremeScore == IF axis = "recency" THEN 1 ELSE 4

\* C10: with at most 4 customers nobody gets frequency score 4, monetary score 4
\* or recency score 1, so nobody is labelled "Champions" whatever the other two
\* scores are; with 5 or more customers of pairwise distinct values somebody
\* gets that score.
TopQuartileNeedsFive ==
    Returned =>
        /\ NumCustomers <= 4 =>
            \A i \in 1..NumCustomers :
                /\ axisScores.scores[i] # ExtremeScore
                /\ axis = "frequency" => \A rs, ms \in Scores :
                        getSegmentName(rs, axisScores.scores[i], ms) # "Champions"
                /\ axis = "monetary" => \A rs, fs \in Scores :
                        getSegmentName(rs, fs, axisScores.scores[i]) # "Champions"
        /\ (NumCustomers >= 5 /\ PairwiseDistinct) =>
            \E i \in 1..NumCustomers : axisScores.scores[i] = ExtremeScore

TopQuartileNeedsFiveWitness ==
    /\ Returned /\ PairwiseDistinct
    /\ NumCustomers = 5
    /\ axis = "frequency"
    /\ axisScores.scores[5] = 4
    /\ getSegmentName(4, axisScores.scores[5], 4) = "Champions"

----------------------------------------------------------------------------
(* Claims on calculateRFM *)

Called == pc = "done" /\ result.kind # "none"

NumTx == Len(transactions)

DistinctIds == {transactions[i].customer_id : i \in 1..NumTx}

\* the first transaction listed for each customer has a date that parses
FirstDatesParse ==
    \A i \in 1..NumTx :
        (\A j \in 1..(i - 1) : transactions[j].customer_id # transactions[i].customer_id)
            => ~IsNaN(DateParse(transactions[i].transaction_date))

AllDatesParse ==
    \A i \in 1..NumTx : ~IsNaN(DateParse(transactions[i].transaction_date))

\* one score per distinct customer_id: none missing, none twice, none foreign
OneScorePerCustomer ==
    /\ result.kind = "returned"
    /\ Len(result.scores) = Cardinality(DistinctIds)
    /\ {result.scores[i].customer_id : i \in 1..Len(result.scores)} = DistinctIds

\* C1 as stated: for every non-empty list calculateRFM returns exactly one
\* RFMScore per distinct customer_id of the input.
OneScorePerCustomerAlways ==
    (Called /\ NumTx >= 1) => OneScorePerCustomer

\* C1, amended: for every non-empty list in which the first transaction of each
\* customer has a date that parses, calculateRFM returns exactly one RFMScore per
\* distinct customer_id; for the other lists it throws and returns nothing.
OneScorePerCustomerOrThrow ==
    (Called /\ NumTx >= 1) =>
        IF FirstDatesParse THEN OneScorePerCustomer ELSE result.kind = "threw"

OneScorePerCustomerWitness ==
    /\ Called /\ NumTx = 3
    /\ ~AllDatesParse
    /\ Cardinality(DistinctIds) = 2
    /\ OneScorePerCustomer

\* C2: called with the empty list, calculateRFM signals an error instead of
\* returning normally.
EmptyInputRejected ==
    (Called /\ NumTx = 0) => result.kind = "threw"

OrdersOf(n) == {p \in [1..n -> 1..n] : \A i, j \in 1..n : i # j => p[i] # p[j]}

Permuted(p) == [i \in 1..NumTx |-> transactions[p[i]]]

MaxDate(id) ==
    LET ds == {DateParse(transactions[i].transaction_date) :
                 i \in {j \in 1..NumTx : transactions[j].customer_id = id}}
    IN  CHOOSE d \in ds : \A e \in ds : d >= e

EntryOf(data, id) == data[MapIndex(data, id)]

\* C7: with dates that parse, every order of the same transactions gives each
\* customer the same count, total spend and last date, and the last date is the
\* latest of the customer's dates.
AggregationOrderIndependent ==
    (Called /\ AllDatesParse) =>
        \A id \in DistinctIds :
            /\ EntryOf(customerData, id).lastDate = MaxDate(id)
            /\ \A p \in OrdersOf(NumTx) :
                LET e == EntryOf(Aggregate(Permuted(p)), id)
                IN  /\ e.transactions = EntryOf(customerData, id).transactions
                    /\ e.totalSpend = EntryOf(customerData, id).totalSpend
                    /\ e.lastDate = EntryOf(customerData, id).lastDate

\* The part of C7 about counts and dates alone.
AggregationCountAndDateOrderIndependent ==
    (Called /\ AllDatesParse) =>
        \A id \in DistinctIds :
            /\ EntryOf(customerData, id).lastDate = MaxDate(id)
            /\ \A p \in OrdersOf(NumTx) :
                LET e == EntryOf(Aggregate(Permuted(p)), id)
                IN  /\ e.transactions = EntryOf(customerData, id).transactions
                    /\ e.lastDate = EntryOf(customerData, id).lastDate

\* whole days from the customer's last date to now
RecencyOf(i) == (NowTime - customerData[i].lastDate) \div DayLength

NumScored == Len(result.scores)

ExampleTransactions ==
    << [customer_id |-> "A", transaction_date |-> "2024-01-01", transaction_amount |-> 2],
       [customer_id |-> "A", transaction_date |-> "2024-02-01", transaction_amount |-> 4],
       [customer_id |-> "B", transaction_date |-> "2024-06-01", transaction_amount |-> 1] >>

\* C8: with at least two customers of pairwise distinct recency days, the most
\* recent customer gets recency score 4 and the least recent a lower one; in the
\* example (amounts 100, 200, 50 in units of 50; now 2024-06-02) B gets 4 and A
\* less, A has frequency 2 and spend 300, B has frequency 1 and spend 50.
MostRecentScoresFour ==
    (Called /\ result.kind = "returned") =>
        /\ (/\ NumScored >= 2
            /\ \A i, j \in 1..NumScored : i # j => RecencyOf(i) # RecencyOf(j)) =>
                \A i \in 1..NumScored :
                    /\ (\A j \in 1..NumScored : RecencyOf(i) <= RecencyOf(j))
                            => result.scores[i].recency_score = 4
                    /\ (\A j \in 1..NumScored : RecencyOf(i) >= RecencyOf(j))
                            => result.scores[i].recency_score < 4
        /\ transactions = ExampleTransactions =>
            /\ NumScored = 2
            /\ result.scores[1].customer_id = "A"
            /\ result.scores[2].customer_id = "B"
            /\ result.scores[2].recency_score = 4
            /\ result.scores[1].recency_score < 4
            /\ result.scores[1].total_transactions = 2
            /\ result.scores[1].total_spend = 6
            /\ result.scores[1].last_transaction_date = "2024-02-01"
            /\ result.scores[2].total_transactions = 1
            /\ result.scores[2].total_spend = 1
            /\ result.scores[2].last_transaction_date = "2024-06-01"

MostRecentScoresFourWitness ==
    /\ Called /\ result.kind = "returned"
    /\ transactions = ExampleTransactions
    /\ RecencyOf(1) = 122 /\ RecencyOf(2) = 1
    /\ result.scores[2].recency_score = 4
    /\ result.scores[1].recency_score = 3

====
